---- MODULE Spec2Model ----
(***************************************************************************)
(* Model of the Bloom filter core of bloom-filter-cpp:                     *)
(*   include/bloomfilter/types.hpp           parameter calculator          *)
(*   include/bloomfilter/hash_functions.hpp  MurmurHash3, DoubleHasher     *)
(*   include/bloomfilter/bloom_filter.hpp    BloomFilter<uint64_t>         *)
(*                                                                         *)
(* uint64_t values are sequences of 8 bytes, least significant first, so   *)
(* that the 64-bit wrap-around of the hash arithmetic is kept exactly.     *)
(* double values are fixed-point numbers in units of 1/Scale, plus NaN.    *)
(***************************************************************************)
EXTENDS Integers, Sequences, FiniteSets, TLC

----------------------------------------------------------------------------
(* uint64_t arithmetic                                                     *)

RECURSIVE Pow2(_)
Pow2(n) == IF n = 0 THEN 1 ELSE 2 * Pow2(n - 1)

\* a uint64_t written most significant byte first, as in a hex literal
W64(hex) ==
    <<hex[8], hex[7], hex[6], hex[5], hex[4], hex[3], hex[2], hex[1]>>

Zero64 == <<0, 0, 0, 0, 0, 0, 0, 0>>

\* static_cast<uint64_t>(n) for a small natural n
RECURSIVE NatLimbs(_, _)
NatLimbs(n, cnt) ==
    IF cnt = 0 THEN <<>> ELSE <<n % 256>> \o NatLimbs(n \div 256, cnt - 1)

ToU64(n) == NatLimbs(n, 8)

RECURSIVE AddFrom(_, _, _, _)
AddFrom(a, b, i, carry) ==
    IF i > 8 THEN <<>>
    ELSE LET s == a[i] + b[i] + carry
         IN  <<s % 256>> \o AddFrom(a, b, i + 1, s \div 256)

\* a + b in uint64_t (mod 2^64)
Add64(a, b) == AddFrom(a, b, 1, 0)

RECURSIVE ColumnSum(_, _, _, _)
ColumnSum(a, b, p, i) ==
    IF i > p THEN 0 ELSE a[i] * b[p + 1 - i] + ColumnSum(a, b, p, i + 1)

RECURSIVE MulFrom(_, _, _, _)
MulFrom(a, b, p, carry) ==
    IF p > 8 THEN <<>>
    ELSE LET col == carry + ColumnSum(a, b, p, 1)
         IN  <<col % 256>> \o MulFrom(a, b, p + 1, col \div 256)

\* a * b in uint64_t (mod 2^64)
Mul64(a, b) == MulFrom(a, b, 1, 0)

\* x ^ y and x | y on n-bit values
RECURSIVE XorBits(_, _, _)
XorBits(x, y, n) ==
    IF n = 0 THEN 0
    ELSE ((x + y) % 2) + 2 * XorBits(x \div 2, y \div 2, n - 1)

RECURSIVE OrBits(_, _, _)
OrBits(x, y, n) ==
    IF n = 0 THEN 0
    ELSE (IF (x % 2) + (y % 2) > 0 THEN 1 ELSE 0)
             + 2 * OrBits(x \div 2, y \div 2, n - 1)

RECURSIVE AndBits(_, _, _)
AndBits(x, y, n) ==
    IF n = 0 THEN 0
    ELSE ((x % 2) * (y % 2)) + 2 * AndBits(x \div 2, y \div 2, n - 1)

Xor64(a, b) ==
    <<XorBits(a[1], b[1], 8), XorBits(a[2], b[2], 8), XorBits(a[3], b[3], 8),
      XorBits(a[4], b[4], 8), XorBits(a[5], b[5], 8), XorBits(a[6], b[6], 8),
      XorBits(a[7], b[7], 8), XorBits(a[8], b[8], 8)>>

Or64(a, b) ==
    <<OrBits(a[1], b[1], 8), OrBits(a[2], b[2], 8), OrBits(a[3], b[3], 8),
      OrBits(a[4], b[4], 8), OrBits(a[5], b[5], 8), OrBits(a[6], b[6], 8),
      OrBits(a[7], b[7], 8), OrBits(a[8], b[8], 8)>>

\* byte l of a, 0 outside 1..8
Limb(a, l) == IF l >= 1 /\ l <= 8 THEN a[l] ELSE 0

\* byte l of a << r
ShlLimb(a, r, l) ==
    ((Limb(a, l - (r \div 8)) * Pow2(r % 8)) % 256)
        + (Limb(a, l - (r \div 8) - 1) \div Pow2(8 - (r % 8)))

\* byte l of a >> r
ShrLimb(a, r, l) ==
    (Limb(a, l + (r \div 8)) \div Pow2(r % 8))
        + ((Limb(a, l + (r \div 8) + 1) * Pow2(8 - (r % 8))) % 256)

\* a << r and a >> r in uint64_t, 0 <= r <= 63
Shl64(a, r) ==
    <<ShlLimb(a, r, 1), ShlLimb(a, r, 2), ShlLimb(a, r, 3), ShlLimb(a, r, 4),
      ShlLimb(a, r, 5), ShlLimb(a, r, 6), ShlLimb(a, r, 7), ShlLimb(a, r, 8)>>

Shr64(a, r) ==
    <<ShrLimb(a, r, 1), ShrLimb(a, r, 2), ShrLimb(a, r, 3), ShrLimb(a, r, 4),
      ShrLimb(a, r, 5), ShrLimb(a, r, 6), ShrLimb(a, r, 7), ShrLimb(a, r, 8)>>

\* (a >> 8 * (i - 1)) % m, by Horner's rule over the bytes of a
RECURSIVE ModFrom(_, _, _)
ModFrom(a, m, i) ==
    IF i > 8 THEN 0 ELSE (a[i] + 256 * ModFrom(a, m, i + 1)) % m

\* a % m for a uint64_t a and a modulus 0 < m < 2^23, as a natural number
Mod64(a, m) == ModFrom(a, m, 1)

IsEven64(a) == a[1] % 2 = 0

----------------------------------------------------------------------------
(* size_t arithmetic (64 bits)                                             *)

\* A size_t below 2^30 is kept as itself. A size_t within 2^30 of the top of
\* the range is kept as the negative integer congruent to it modulo 2^64, so
\* that + and % 8 wrap as the 64-bit operations do. Every size_t in between is
\* kept as HugeSize.
SIZE_MAX == -1

\* a size_t that no container of the machine reaches (2^63 on the machine)
HugeSize == Pow2(30)

\* a < b on size_t
SizeLess(a, b) == IF (a < 0) = (b < 0) THEN a < b ELSE b < 0

\* a / 8 on size_t
SizeDiv8(a) == IF a < 0 THEN HugeSize ELSE a \div 8

\* (bit_array_size + 7) / 8 on size_t: the sum wraps past SIZE_MAX
ByteCount(bit_array_size) == SizeDiv8(bit_array_size + 7)

\* the three low bytes of a uint64_t, as a natural number
Low24(a) == a[1] + 256 * a[2] + 65536 * a[3]

\* the five high bytes of a are all equal to byte
HighBytesAre(a, byte) == \A i \in 4..8 : a[i] = byte

\* static_cast<size_t>(a) for a uint64_t a
SizeOfU64(a) ==
    IF HighBytesAre(a, 0) THEN Low24(a)
    ELSE IF HighBytesAre(a, 255) THEN Low24(a) - Pow2(24)
    ELSE HugeSize

\* a % m for a uint64_t a and a modulus m within 2^24 of the top of the range:
\* a is below 2 * m, so the remainder is a or a - m
Mod64Top(a, m) ==
    IF HighBytesAre(a, 255) /\ Low24(a) - Pow2(24) >= m
    THEN Low24(a) - Pow2(24) - m
    ELSE SizeOfU64(a)

\* (uint64_t a) % (size_t m), as a size_t
Rem64(a, m) == IF m < 0 THEN Mod64Top(a, m) ELSE Mod64(a, m)

----------------------------------------------------------------------------
(* MurmurHash3 (hash_functions.hpp)                                        *)

\* data is a sequence of bytes; the code reads it through a pointer
rotl64(x, r) == Or64(Shl64(x, r), Shr64(x, 64 - r))

\* F(x), with x computed first: the statements of the code run one after the
\* other, each on the value the one before it left
Then(x, F(_)) == CHOOSE y \in {F(v) : v \in {x}} : TRUE

fmix64(k) ==
    LET XorShift33(x) == Xor64(x, Shr64(x, 33))
        MulFirst(x) ==
            Mul64(x, W64(<<\hff, \h51, \haf, \hd7, \hed, \h55, \h8c, \hcd>>))
        MulSecond(x) ==
            Mul64(x, W64(<<\hc4, \hce, \hb9, \hfe, \h1a, \h85, \hec, \h53>>))
    IN  Then(Then(Then(Then(Then(k, XorShift33), MulFirst), XorShift33),
                  MulSecond),
             XorShift33)

Murmur_c1 == W64(<<\h87, \hc3, \h7b, \h91, \h11, \h42, \h53, \hd5>>)
Murmur_c2 == W64(<<\h4c, \hf5, \had, \h43, \h27, \h45, \h93, \h7f>>)

\* blocks[i]: eight bytes of data read as one uint64_t in the byte order of
\* the target (little-endian)
Block(data, i) == SubSeq(data, 8 * i + 1, 8 * i + 8)

\* k1 *= c1; k1 = rotl64(k1, 31); k1 *= c2;
MixK1(k1) ==
    LET MulC1(x) == Mul64(x, Murmur_c1)
        Rotl31(x) == rotl64(x, 31)
        MulC2(x) == Mul64(x, Murmur_c2)
    IN  Then(Then(Then(k1, MulC1), Rotl31), MulC2)

RECURSIVE MurmurBody(_, _, _, _)
MurmurBody(data, nblocks, i, h1) ==
    IF i >= nblocks THEN h1
    ELSE LET XorK1(x) == Xor64(x, MixK1(Block(data, i)))
             Rotl27(x) == rotl64(x, 27)
             MulAdd(x) == Add64(Mul64(x, ToU64(5)),
                                W64(<<0, 0, 0, 0, \h52, \hdc, \he7, \h29>>))
             Next64(x) == MurmurBody(data, nblocks, i + 1, x)
         IN  Then(Then(Then(Then(h1, XorK1), Rotl27), MulAdd), Next64)

\* the fall-through switch over size & 7: tail[j] is xored in at bit 8*j
\* for j from (size & 7) - 1 down to 0
RECURSIVE MurmurTail(_, _, _, _)
MurmurTail(data, base, rem, k1) ==
    IF rem = 0 THEN k1
    ELSE MurmurTail(data, base, rem - 1,
                    Xor64(k1, Shl64(ToU64(data[base + rem]), 8 * (rem - 1))))

MurmurHash3_hash(data, size, seed) ==
    LET nblocks == size \div 8
        rem == size % 8
        Body == MurmurBody(data, nblocks, 0, seed)
        TailSwitch(h1) ==
            IF rem = 0 THEN h1
            ELSE Xor64(h1, MixK1(MurmurTail(data, nblocks * 8, rem, Zero64)))
        Finalization(h1) == fmix64(Xor64(h1, ToU64(size)))
    IN  Then(Then(Body, TailSwitch), Finalization)

----------------------------------------------------------------------------
(* double arithmetic (types.hpp uses double, std::log, std::exp, std::pow)   *)

\* one unit of the fixed-point grid: the double 1.0 is Scale
Scale == 1000000

Dbl(v) == [nan |-> FALSE, v |-> v]
NaN == [nan |-> TRUE, v |-> 0]

\* IEEE comparisons: every comparison with NaN is false
DLeq(a, b) == ~a.nan /\ ~b.nan /\ a.v <= b.v
DGeq(a, b) == ~a.nan /\ ~b.nan /\ a.v >= b.v

\* a * b on the grid, for 0 <= a, b <= Scale
MulFix(a, b) == (a * (b \div 1000)) \div 1000 + (a * (b % 1000)) \div Scale

\* a / m on the grid, for naturals a and m > 0
FixDiv(a, m) == (a \div m) * Scale + ((a % m) * Scale) \div m

\* ceil(a / b) for a >= 0, b > 0
CeilDiv(a, b) == (a + b - 1) \div b

\* std::log on the rates the model constructs filters with
StdLog(p) ==
    CASE p.nan -> NaN
      [] p.v = 1 -> Dbl(-13815511)
      [] p.v = 10000 -> Dbl(-4605170)
      [] p.v = 500000 -> Dbl(-693147)

\* exp(-q) for q = 0 .. 14
ExpNegInt ==
    <<1000000, 367879, 135335, 49787, 18316, 6738, 2479, 912, 335, 123, 45,
      17, 6, 2, 1>>

\* Taylor series of exp(-r / Scale) for 0 <= r < Scale; term is r^i / i!
RECURSIVE ExpNegFrac(_, _, _, _)
ExpNegFrac(r, term, i, sign) ==
    IF term = 0 THEN 0
    ELSE sign * term + ExpNegFrac(r, MulFix(term, r) \div i, i + 1, -sign)

\* std::exp(-x / Scale) for x >= 0
StdExpNeg(x) ==
    IF x \div Scale > 14 THEN 0
    ELSE MulFix(ExpNegInt[(x \div Scale) + 1], ExpNegFrac(x % Scale, Scale, 1, 1))

\* a double strictly between 0.0 and 1.0 stays strictly between them
Inside(v) == IF v < 1 THEN 1 ELSE IF v > Scale - 1 THEN Scale - 1 ELSE v

\* 54 * ln 2: 1.0 - e rounds to 1.0 in binary64 exactly when e <= 2^-54
OneMinusSaturates == 37429948

\* 1.0 - std::exp(-x / Scale) for x >= 0
OneMinusExpNeg(x) ==
    IF x = 0 THEN 0
    ELSE IF x > OneMinusSaturates THEN Scale
    ELSE Inside(Scale - StdExpNeg(x))

\* acc * base^k by k successive multiplications; a product that reached 0
\* stays 0
RECURSIVE PowAcc(_, _, _)
PowAcc(acc, base, k) ==
    IF k = 0 \/ acc = 0 THEN acc ELSE PowAcc(MulFix(acc, base), base, k - 1)

\* std::pow(base, k) for 0.0 <= base <= 1.0 and an integer 1 <= k <= 32
StdPow(base, k) ==
    IF base = 0 THEN 0
    ELSE IF base = Scale THEN Scale
    ELSE Inside(PowAcc(Scale, base, k))

----------------------------------------------------------------------------
(* Parameter calculator (types.hpp)                                        *)

DEFAULT_FALSE_POSITIVE_RATE == Dbl(10000)
MIN_BIT_ARRAY_SIZE == 64
MIN_HASH_FUNCTIONS == 1
MAX_HASH_FUNCTIONS == 32
LN_2 == 693147
LN_2_SQUARED == 480453

Max(a, b) == IF a >= b THEN a ELSE b
Min(a, b) == IF a <= b THEN a ELSE b

\* static_cast<size_t>(d) of a double: the conversion of NaN is undefined;
\* the builds produce 0 (AArch64) or 0x8000000000000000 (x86-64)
CastToSizeT(d) == IF d.nan THEN {0, HugeSize} ELSE {d.v}

\* variant of calculate_optimal_bit_array_size that returns the formula's
\* value without raising it to MIN_BIT_ARRAY_SIZE
calculate_optimal_bit_array_size_no_floor(expected_elements, false_positive_rate) ==
    IF expected_elements = 0 THEN {MIN_BIT_ARRAY_SIZE}
    ELSE LET p == IF DLeq(false_positive_rate, Dbl(0))
                     \/ DGeq(false_positive_rate, Dbl(Scale))
                  THEN DEFAULT_FALSE_POSITIVE_RATE
                  ELSE false_positive_rate
             lg == StdLog(p)
             m == IF lg.nan THEN NaN
                  ELSE Dbl(CeilDiv(expected_elements * (-lg.v), LN_2_SQUARED))
         IN  {Max(result, 1) : result \in CastToSizeT(m)}

\* the set of values the function can return (one value unless the cast is
\* undefined)
calculate_optimal_bit_array_size(expected_elements, false_positive_rate) ==
    IF expected_elements = 0 THEN {MIN_BIT_ARRAY_SIZE}
    ELSE LET p == IF DLeq(false_positive_rate, Dbl(0))
                     \/ DGeq(false_positive_rate, Dbl(Scale))
                  THEN DEFAULT_FALSE_POSITIVE_RATE
                  ELSE false_positive_rate
             lg == StdLog(p)
             \* std::ceil(-n * log(p) / LN_2_SQUARED)
             m == IF lg.nan THEN NaN
                  ELSE Dbl(CeilDiv(expected_elements * (-lg.v), LN_2_SQUARED))
         IN  {Max(result, MIN_BIT_ARRAY_SIZE) : result \in CastToSizeT(m)}

\* variant of calculate_optimal_hash_count that returns the rounded value
\* without clamping it to [MIN_HASH_FUNCTIONS, MAX_HASH_FUNCTIONS]
calculate_optimal_hash_count_unclamped(bit_array_size, expected_elements) ==
    IF expected_elements = 0 THEN 1
    ELSE (2 * bit_array_size * LN_2 + expected_elements * Scale)
             \div (2 * expected_elements * Scale)

calculate_optimal_hash_count(bit_array_size, expected_elements) ==
    IF expected_elements = 0 THEN 1
    ELSE IF bit_array_size < 0 \/ bit_array_size \div expected_elements >= 47
         \* (m / n) * LN_2 >= 32.5 (a size_t of 2^63 or more counts as m < 0
         \* here), so std::min picks MAX_HASH_FUNCTIONS
         THEN Max(MIN_HASH_FUNCTIONS, MAX_HASH_FUNCTIONS)
    ELSE LET \* std::round((m / n) * LN_2), halves away from zero
             result == (2 * bit_array_size * LN_2 + expected_elements * Scale)
                           \div (2 * expected_elements * Scale)
         IN  Max(MIN_HASH_FUNCTIONS, Min(result, MAX_HASH_FUNCTIONS))

\* variant of estimate_false_positive_rate that tests for an empty filter
\* before it tests for a degenerate m or k
estimate_false_positive_rate_empty_first(bit_array_size, hash_count, inserted_elements) ==
    IF inserted_elements = 0 THEN Dbl(0)
    ELSE IF bit_array_size = 0 \/ hash_count = 0 THEN Dbl(Scale)
    ELSE LET x == IF bit_array_size < 0 THEN 0
                  ELSE FixDiv(hash_count * inserted_elements, bit_array_size)
             base == OneMinusExpNeg(x)
         IN  Dbl(StdPow(base, hash_count))

estimate_false_positive_rate(bit_array_size, hash_count, inserted_elements) ==
    IF bit_array_size = 0 \/ hash_count = 0 THEN Dbl(Scale)
    ELSE IF inserted_elements = 0 THEN Dbl(0)
    ELSE LET \* -exponent
             x == IF bit_array_size < 0 THEN 0
                  ELSE FixDiv(hash_count * inserted_elements, bit_array_size)
             base == OneMinusExpNeg(x)
         IN  Dbl(StdPow(base, hash_count))

----------------------------------------------------------------------------
(* Inputs of the model                                                     *)

\* largest capacity passed to a constructor
MaxCapacity == 3

\* largest number of counted insert calls between two clears
MaxInserts == 2

\* the buffers callers pass: "a", "c", "f", "abcdefghi"
Buffers ==
    {<<97>>, <<99>>, <<102>>, <<97, 98, 99, 100, 101, 102, 103, 104, 105>>}

\* std::string values: the buffers and the empty string
Strings == Buffers \cup {<<>>}

\* a const void*: the null pointer, or a pointer to a readable buffer
NullPtr == [null |-> TRUE, bytes |-> <<>>]
Ptr(bytes) == [null |-> FALSE, bytes |-> bytes]

\* (data, size) argument pairs: null with size 0 or 1, a buffer with size 0,
\* a buffer with its full length
RawArgs ==
    {[data |-> NullPtr, size |-> s] : s \in {0, 1}}
    \cup {[data |-> Ptr(b), size |-> 0] : b \in {<<>>, <<97>>}}
    \cup {[data |-> Ptr(b), size |-> Len(b)] : b \in Buffers}

Capacities == 0..MaxCapacity

\* false_positive_rate arguments: NaN, -0.5, 0.0, 0.000001, 0.01, 0.5, 1.0, 1.5
Rates ==
    {NaN, Dbl(-500000), Dbl(0), Dbl(1), Dbl(10000), Dbl(500000),
     Dbl(Scale), Dbl(1500000)}

\* bit_array_size and hash_count arguments of the explicit constructor
ExplicitSizes == {0, 1, 10}
ExplicitHashCounts == {0, 1, 3, 32, 33}
ExplicitCapacities == {0, 1, MaxCapacity}

\* bit_array_size arguments at the top of the size_t range
TopSizes == {SIZE_MAX, SIZE_MAX - 7}

----------------------------------------------------------------------------
(* DoubleHasher (hash_functions.hpp)                                       *)

\* default seed2 of DoubleHasher
DefaultSeed2 == W64(<<\h12, \h34, \h56, \h78, \h90, \hab, \hcd, \hef>>)

\* DoubleHasher(bit_array_size): seed1 = 0, seed2 = 0x1234567890abcdef
DoubleHasher(bit_array_size) ==
    [bit_array_size_ |-> bit_array_size,
     hash1_ |-> [seed_ |-> Zero64],
     hash2_ |-> [seed_ |-> DefaultSeed2]]

\* MurmurHash3::operator()
MurmurHash3_call(self, data, size) == MurmurHash3_hash(data, size, self.seed_)

\* hashes[i] = (h1 + i * h2) % bit_array_size_ for i = 0 .. k - 1; the sequence
\* holds hashes[i] at place i + 1
Probes(h1, h2, m, k) ==
    [i \in 1..k |-> Rem64(Add64(h1, Mul64(ToU64(i - 1), h2)), m)]

\* variant of get_all_hashes that uses h2 as the hash function returned it
get_all_hashes_raw_h2(self, data, size, k) ==
    LET h1 == MurmurHash3_call(self.hash1_, data, size)
        h2 == MurmurHash3_call(self.hash2_, data, size)
    IN  Probes(h1, h2, self.bit_array_size_, k)

get_all_hashes(self, data, size, k) ==
    LET h1 == MurmurHash3_call(self.hash1_, data, size)
        h2 == MurmurHash3_call(self.hash2_, data, size)
    IN  IF IsEven64(h2)
        THEN Probes(h1, Add64(h2, ToU64(1)), self.bit_array_size_, k)
        ELSE Probes(h1, h2, self.bit_array_size_, k)

\* variant of DoubleHasher::hash that uses h2 as the hash function returned it
DoubleHasher_hash_raw_h2(self, data, size, hash_index) ==
    LET h1 == MurmurHash3_call(self.hash1_, data, size)
        h2 == MurmurHash3_call(self.hash2_, data, size)
    IN  Rem64(Add64(h1, Mul64(ToU64(hash_index), h2)), self.bit_array_size_)

\* DoubleHasher::hash(data, size, hash_index)
DoubleHasher_hash(self, data, size, hash_index) ==
    LET h1 == MurmurHash3_call(self.hash1_, data, size)
        h2 == MurmurHash3_call(self.hash2_, data, size)
    IN  IF IsEven64(h2)
        THEN Rem64(Add64(h1, Mul64(ToU64(hash_index), Add64(h2, ToU64(1)))),
                   self.bit_array_size_)
        ELSE Rem64(Add64(h1, Mul64(ToU64(hash_index), h2)), self.bit_array_size_)

\* the (hasher, hash count) pairs of the filters the constructors can produce
TableParams ==
    {<<DoubleHasher(m), k>> :
        m \in (ExplicitSizes \cup {t \in TopSizes : ByteCount(t) = 0}) \ {0},
        k \in {c \in ExplicitHashCounts : c >= 1 /\ c <= MAX_HASH_FUNCTIONS}}
    \cup UNION {{<<DoubleHasher(m), calculate_optimal_hash_count(m, n)>> :
                    m \in calculate_optimal_bit_array_size(n, p) \ {HugeSize}} :
                n \in Capacities \ {0}, p \in Rates}

\* get_all_hashes evaluated once for every such pair and every buffer
AllHashes ==
    [c \in TableParams, b \in Buffers |-> get_all_hashes(c[1], b, Len(b), c[2])]

----------------------------------------------------------------------------
(* BloomFilter<uint64_t> (bloom_filter.hpp)                                *)

VARIABLES
    phase,     \* "start", "live", or the exception a constructor threw
    this,      \* the fields of the BloomFilter object
    args,      \* the arguments the constructor was called with
    inserted,  \* history: byte sequences inserted since construction / clear()
    calls,     \* history: insert calls with a non-empty, non-null input since then
    last,      \* the last call on the live filter and what it returned
    prev,      \* history: the fields of the object when that call was made
    twin,      \* a second filter, given the same calls as the first
    threads    \* the threads that are inside insert, each with its locals

vars == <<phase, this, args, inserted, calls, last, prev, twin, threads>>

\* the largest std::vector<uint8_t> the machine can allocate
AllocLimit == Pow2(20)

\* the member fields, in declaration order
Object(m, bytes, k, n, p, cnt, arr, hasher) ==
    [bit_array_size_ |-> m,
     bit_array_bytes_ |-> bytes,
     hash_count_ |-> k,
     expected_elements_ |-> n,
     false_positive_rate_ |-> p,
     inserted_count_ |-> cnt,
     bit_array_ |-> arr,
     hasher_ |-> hasher]

\* no object: before construction, or after a constructor threw
NoObject == Object(0, 0, 0, 0, Dbl(0), 0, <<>>, DoubleHasher(0))

NoCall == [op |-> "none", data |-> NullPtr, size |-> 0, ret |-> 0]

\* no second filter
NoTwin == [made |-> FALSE, this |-> NoObject, args |-> <<>>, ret |-> 0]

\* the threads of a program that calls insert concurrently
ThreadIds == {1, 2}

\* a thread outside insert; inside, pc is the next memory access of the call,
\* hashes and i are the locals of the loop and loaded is the value last read
Idle == [pc |-> "idle", data |-> <<>>, hashes |-> <<>>, i |-> 0, loaded |-> 0]

\* no thread is inside insert; overlapped records whether, since construction
\* or the last clear(), a thread entered insert while another was inside
NoThreads == [inside |-> [t \in ThreadIds |-> Idle], overlapped |-> FALSE]

\* std::vector<uint8_t>::resize(bytes, 0) on an empty vector
ZeroBytes(bytes) == [i \in 1..bytes |-> 0]

\* variant of set_bit that assigns the mask instead of or-ing it in
set_bit_assign(self, position) ==
    IF position >= self.bit_array_size_ THEN self
    ELSE [self EXCEPT !.bit_array_[(position \div 8) + 1] = Pow2(position % 8)]

\* bit_array_[byte_index] |= (1 << bit_index); byte 0 is bit_array_[1]
set_bit(self, position) ==
    IF ~SizeLess(position, self.bit_array_size_) THEN self
    ELSE LET byte_index == position \div 8
             bit_index == position % 8
         IN  [self EXCEPT !.bit_array_[byte_index + 1] =
                              OrBits(@, Pow2(bit_index), 8)]

get_bit(self, position) ==
    IF ~SizeLess(position, self.bit_array_size_) THEN FALSE
    ELSE LET byte_index == position \div 8
             bit_index == position % 8
         IN  AndBits(self.bit_array_[byte_index + 1], Pow2(bit_index), 8) # 0

\* bit_array_[byte_index] of set_bit / get_bit is past the end of the vector:
\* operator[] does not check, the access is undefined
OutsideStore(self, position) ==
    /\ SizeLess(position, self.bit_array_size_)
    /\ SizeDiv8(position) >= Len(self.bit_array_)

\* std::vector<size_t> hashes(hash_count_); for (size_t hash : hashes) set_bit(hash);
RECURSIVE SetAll(_, _, _)
SetAll(self, hashes, i) ==
    IF i > self.hash_count_ THEN self
    ELSE SetAll(set_bit(self, hashes[i]), hashes, i + 1)

\* variant of insert that counts an element only when it set a new bit
insert_distinct(self, data, size) ==
    IF data.null \/ size = 0 THEN self
    ELSE LET set == SetAll(self,
                           AllHashes[<<self.hasher_, self.hash_count_>>,
                                     SubSeq(data.bytes, 1, size)], 1)
         IN  IF set.bit_array_ = self.bit_array_ THEN set
             ELSE [set EXCEPT !.inserted_count_ = @ + 1]

\* variant of insert that counts the call before the early return
insert_count_first(self, data, size) ==
    LET counted == [self EXCEPT !.inserted_count_ = @ + 1]
    IN  IF data.null \/ size = 0 THEN counted
        ELSE SetAll(counted,
                    AllHashes[<<self.hasher_, self.hash_count_>>,
                              SubSeq(data.bytes, 1, size)], 1)

\* variant of insert that raises the capacity once more elements than
\* expected were inserted
insert_grow(self, data, size) ==
    IF data.null \/ size = 0 THEN self
    ELSE LET set == SetAll(self,
                           AllHashes[<<self.hasher_, self.hash_count_>>,
                                     SubSeq(data.bytes, 1, size)], 1)
         IN  [set EXCEPT !.inserted_count_ = @ + 1,
                         !.expected_elements_ =
                             Max(@, self.inserted_count_ + 1)]

\* insert(const void* data, size_t size): the object after the call
insert(self, data, size) ==
    IF data.null \/ size = 0 THEN self
    ELSE LET hashes == AllHashes[<<self.hasher_, self.hash_count_>>,
                                 SubSeq(data.bytes, 1, size)]
             set == SetAll(self, hashes, 1)
         IN  [set EXCEPT !.inserted_count_ = @ + 1]

\* an insert call writes past the end of the vector
InsertOutOfBounds(self, data, size) ==
    /\ ~(data.null \/ size = 0)
    /\ LET hashes == AllHashes[<<self.hasher_, self.hash_count_>>,
                               SubSeq(data.bytes, 1, size)]
       IN  \E i \in 1..Len(hashes) : OutsideStore(self, hashes[i])

\* variant of the query loop that accepts as soon as one bit is set
RECURSIVE AnySet(_, _, _)
AnySet(self, hashes, i) ==
    IF i > Len(hashes) THEN FALSE
    ELSE IF get_bit(self, hashes[i]) THEN TRUE
    ELSE AnySet(self, hashes, i + 1)

\* for (size_t hash : hashes) if (!get_bit(hash)) return false; return true;
RECURSIVE AllSet(_, _, _)
AllSet(self, hashes, i) ==
    IF i > Len(hashes) THEN TRUE
    ELSE IF ~get_bit(self, hashes[i]) THEN FALSE
    ELSE AllSet(self, hashes, i + 1)

\* contains(const void* data, size_t size) const
contains(self, data, size) ==
    IF data.null \/ size = 0 THEN FALSE
    ELSE AllSet(self,
                AllHashes[<<self.hasher_, self.hash_count_>>,
                          SubSeq(data.bytes, 1, size)],
                1)

\* the query loop reads past the end of the vector before it returns
RECURSIVE ProbesOutOfBounds(_, _, _)
ProbesOutOfBounds(self, hashes, i) ==
    IF i > Len(hashes) THEN FALSE
    ELSE IF OutsideStore(self, hashes[i]) THEN TRUE
    ELSE IF ~get_bit(self, hashes[i]) THEN FALSE
    ELSE ProbesOutOfBounds(self, hashes, i + 1)

ContainsOutOfBounds(self, data, size) ==
    /\ ~(data.null \/ size = 0)
    /\ ProbesOutOfBounds(self,
                         AllHashes[<<self.hasher_, self.hash_count_>>,
                                   SubSeq(data.bytes, 1, size)],
                         1)

\* while (byte) { byte &= byte - 1; count++; }
RECURSIVE Kernighan(_)
Kernighan(byte) ==
    IF byte = 0 THEN 0 ELSE 1 + Kernighan(AndBits(byte, byte - 1, 8))

RECURSIVE CountFullBytes(_, _, _)
CountFullBytes(self, full_bytes, i) ==
    IF i >= full_bytes THEN 0
    ELSE Kernighan(self.bit_array_[i + 1]) + CountFullBytes(self, full_bytes, i + 1)

\* variant of count_set_bits that counts the whole last byte, without the mask
count_set_bits_unmasked(self) ==
    LET full_bytes == self.bit_array_size_ \div 8
        extra_bits == self.bit_array_size_ % 8
        count == CountFullBytes(self, full_bytes, 0)
    IN  IF extra_bits > 0 /\ full_bytes < Len(self.bit_array_)
        THEN count + Kernighan(self.bit_array_[full_bytes + 1])
        ELSE count

count_set_bits(self) ==
    LET full_bytes == self.bit_array_size_ \div 8
        extra_bits == self.bit_array_size_ % 8
        count == CountFullBytes(self, full_bytes, 0)
    IN  IF extra_bits > 0 /\ full_bytes < Len(self.bit_array_)
        THEN LET mask == Pow2(extra_bits) - 1
                 last_byte == AndBits(self.bit_array_[full_bytes + 1], mask, 8)
             IN  count + Kernighan(last_byte)
        ELSE count

\* the loop over the full bytes reads past the end of the vector
CountOutOfBounds(self) == SizeDiv8(self.bit_array_size_) > Len(self.bit_array_)

\* variant of clear that resets the counter and keeps the bits
clear_keep_bits(self) == [self EXCEPT !.inserted_count_ = 0]

\* variant of clear that zeroes the bits and keeps the counter
clear_keep_count(self) == [self EXCEPT !.bit_array_ = [i \in DOMAIN @ |-> 0]]

\* std::fill(bit_array_.begin(), bit_array_.end(), 0); inserted_count_ = 0;
clear(self) ==
    [self EXCEPT !.bit_array_ = [i \in DOMAIN @ |-> 0], !.inserted_count_ = 0]

\* sizeof(*this) on LP64: six 8-byte fields, a 24-byte std::vector and a
\* 24-byte DoubleHasher
SizeofThis == 6 * 8 + 24 + 24

memory_usage(self) == self.bit_array_bytes_ + SizeofThis

size(self) == self.inserted_count_
capacity(self) == self.expected_elements_
false_positive_rate(self) == self.false_positive_rate_
bit_array_size(self) == self.bit_array_size_
hash_count(self) == self.hash_count_

\* variant of estimated_false_positive_rate that estimates at the configured
\* capacity instead of the live element count
estimated_false_positive_rate_at_capacity(self) ==
    estimate_false_positive_rate(self.bit_array_size_, self.hash_count_,
                                 self.expected_elements_)

estimated_false_positive_rate(self) ==
    estimate_false_positive_rate(self.bit_array_size_, self.hash_count_,
                                 self.inserted_count_)

----------------------------------------------------------------------------
(* Actions                                                                 *)

DerivedArgs(n, p) ==
    [mode |-> "derived", expected_elements |-> n, false_positive_rate |-> p,
     bit_array_size |-> 0, hash_count |-> 0]

ExplicitArgs(m, k, n) ==
    [mode |-> "explicit", expected_elements |-> n, false_positive_rate |-> Dbl(0),
     bit_array_size |-> m, hash_count |-> k]

Init ==
    /\ phase = "start"
    /\ this = NoObject
    /\ args = DerivedArgs(0, Dbl(0))
    /\ inserted = {}
    /\ calls = 0
    /\ last = NoCall
    /\ prev = NoObject
    /\ twin = NoTwin
    /\ threads = NoThreads

Throw(exception) ==
    /\ phase' = exception
    /\ this' = NoObject

\* variant of the constructors whose hasher is not fixed by the parameters:
\* it is any of the hashers that go with the hash count
Constructed_any_hasher(m, bytes, k, n, p) ==
    IF bytes > AllocLimit
    THEN Throw("bad_alloc")
    ELSE /\ phase' = "live"
         /\ \E c \in {d \in TableParams : d[2] = k} :
                this' = Object(m, bytes, k, n, p, 0, ZeroBytes(bytes), c[1])

\* the object a constructor leaves once bit_array_.resize has run
Constructed(m, bytes, k, n, p) ==
    IF bytes > AllocLimit
    THEN Throw("bad_alloc")
    ELSE /\ phase' = "live"
         /\ this' = Object(m, bytes, k, n, p, 0, ZeroBytes(bytes), DoubleHasher(m))

\* variant of the derived constructor that rejects only the rates strictly
\* outside [0, 1], so that 0.0 and 1.0 are accepted
ConstructDerived_closed_interval(n, p) ==
    /\ phase = "start"
    /\ args' = DerivedArgs(n, p)
    /\ UNCHANGED <<inserted, calls, last, prev, twin, threads>>
    /\ IF n = 0 THEN Throw("invalid_argument")
       ELSE IF (~DGeq(p, Dbl(0)) /\ DLeq(p, Dbl(0)))
                \/ (~DLeq(p, Dbl(Scale)) /\ DGeq(p, Dbl(Scale)))
            THEN Throw("invalid_argument")
       ELSE \E m \in calculate_optimal_bit_array_size(n, p) :
                Constructed(m, ByteCount(m), calculate_optimal_hash_count(m, n),
                            n, p)

\* BloomFilter(size_t expected_elements, double false_positive_rate)
ConstructDerived(n, p) ==
    /\ phase = "start"
    /\ args' = DerivedArgs(n, p)
    /\ UNCHANGED <<inserted, calls, last, prev, twin, threads>>
    /\ IF n = 0 THEN Throw("invalid_argument")
       ELSE IF DLeq(p, Dbl(0)) \/ DGeq(p, Dbl(Scale)) THEN Throw("invalid_argument")
       ELSE \E m \in calculate_optimal_bit_array_size(n, p) :
                Constructed(m, ByteCount(m), calculate_optimal_hash_count(m, n),
                            n, p)

\* variant of the explicit constructor that estimates the rate at the
\* current element count, 0, instead of at the capacity
ConstructExplicit_rate_at_size(m, k, n) ==
    /\ phase = "start"
    /\ args' = ExplicitArgs(m, k, n)
    /\ UNCHANGED <<inserted, calls, last, prev, twin, threads>>
    /\ IF m = 0 THEN Throw("invalid_argument")
       ELSE IF k = 0 \/ k > MAX_HASH_FUNCTIONS THEN Throw("invalid_argument")
       ELSE Constructed(m, ByteCount(m), k, n,
                        estimate_false_positive_rate(m, k, 0))

\* BloomFilter(size_t bit_array_size, size_t hash_count, size_t expected_elements)
ConstructExplicit(m, k, n) ==
    /\ phase = "start"
    /\ args' = ExplicitArgs(m, k, n)
    /\ UNCHANGED <<inserted, calls, last, prev, twin, threads>>
    /\ IF m = 0 THEN Throw("invalid_argument")
       ELSE IF k = 0 \/ k > MAX_HASH_FUNCTIONS THEN Throw("invalid_argument")
       ELSE Constructed(m, ByteCount(m), k, n,
                        estimate_false_positive_rate(m, k, n))

Call(op, data, sz, ret) == [op |-> op, data |-> data, size |-> sz, ret |-> ret]

\* insert(data, size); the history counts the calls that pass the early return
\* A write past the end of the vector is undefined: the process is killed
\* ("segfault") or the byte lands in memory that is not the filter's
\* ("corrupted"); the model follows neither any further.
InsertCall(data, sz) ==
    /\ phase = "live"
    /\ (data.null \/ sz = 0) \/ calls < MaxInserts
    /\ args' = args
    /\ last' = Call("insert", data, sz, 0)
    /\ prev' = this
    /\ IF InsertOutOfBounds(this, data, sz)
       THEN /\ phase' \in {"segfault", "corrupted"}
            /\ UNCHANGED <<this, inserted, calls>>
       ELSE /\ this' = insert(this, data, sz)
            /\ phase' = phase
            /\ inserted' = IF data.null \/ sz = 0 THEN inserted
                           ELSE inserted \cup {SubSeq(data.bytes, 1, sz)}
            /\ calls' = IF data.null \/ sz = 0 THEN calls ELSE calls + 1

Insert(a) == InsertCall(a.data, a.size) /\ UNCHANGED <<twin, threads>>

\* insert(const std::string& str): insert(str.data(), str.size())
InsertString(str) == InsertCall(Ptr(str), Len(str)) /\ UNCHANGED <<twin, threads>>

\* variant of contains that leaves the mutable hasher_ re-targeted
ContainsCall_rehash(data, sz) ==
    /\ phase = "live"
    /\ last' = Call("contains", data, sz, contains(this, data, sz))
    /\ prev' = this
    /\ this' = [this EXCEPT !.hasher_ = DoubleHasher(1)]
    /\ UNCHANGED <<phase, args, inserted, calls>>

\* A read past the end of the vector is undefined: the process is killed, or
\* the call goes on with whatever the memory there holds and returns either
\* answer.
ContainsCall(data, sz) ==
    /\ phase = "live"
    /\ prev' = this
    /\ UNCHANGED <<this, args, inserted, calls>>
    /\ IF ContainsOutOfBounds(this, data, sz)
       THEN \E outcome \in {"segfault", "live"}, ret \in BOOLEAN :
                /\ phase' = outcome
                /\ last' = Call("contains", data, sz, ret)
       ELSE /\ phase' = phase
            /\ last' = Call("contains", data, sz, contains(this, data, sz))

Contains(a) == ContainsCall(a.data, a.size) /\ UNCHANGED <<twin, threads>>

\* contains(const std::string& str): contains(str.data(), str.size())
ContainsString(str) ==
    ContainsCall(Ptr(str), Len(str)) /\ UNCHANGED <<twin, threads>>

\* clear() on the live filter
ClearCall ==
    /\ phase = "live"
    /\ this' = clear(this)
    /\ inserted' = {}
    /\ calls' = 0
    /\ last' = Call("clear", NullPtr, 0, 0)
    /\ prev' = this
    /\ UNCHANGED <<phase, args>>

Clear == ClearCall /\ UNCHANGED <<twin, threads>>

\* a const accessor: the object is read, the result is returned
Accessor(op, ret) ==
    /\ phase = "live"
    /\ last' = Call(op, NullPtr, 0, ret)
    /\ prev' = this
    /\ UNCHANGED <<phase, this, args, inserted, calls, twin, threads>>

Size == Accessor("size", size(this))
Capacity == Accessor("capacity", capacity(this))
FalsePositiveRate == Accessor("false_positive_rate", false_positive_rate(this))
EstimatedFalsePositiveRate ==
    Accessor("estimated_false_positive_rate", estimated_false_positive_rate(this))
BitArraySize == Accessor("bit_array_size", bit_array_size(this))
HashCount == Accessor("hash_count", hash_count(this))
MemoryUsage == Accessor("memory_usage", memory_usage(this))
\* count_set_bits(); reading full_bytes bytes of a shorter vector runs off
\* the mapped memory
CountSetBits ==
    /\ phase = "live"
    /\ IF CountOutOfBounds(this)
       THEN /\ phase' = "segfault"
            /\ last' = Call("count_set_bits", NullPtr, 0, 0)
            /\ prev' = this
            /\ UNCHANGED <<this, args, inserted, calls, twin, threads>>
       ELSE Accessor("count_set_bits", count_set_bits(this))

Next ==
    \/ \E n \in Capacities, p \in Rates : ConstructDerived(n, p)
    \/ \E m \in ExplicitSizes, k \in ExplicitHashCounts, n \in ExplicitCapacities :
           ConstructExplicit(m, k, n)
    \/ \E a \in RawArgs : Insert(a)
    \/ \E str \in Strings : InsertString(str)
    \/ \E a \in RawArgs : Contains(a)
    \/ \E str \in Strings : ContainsString(str)
    \/ Clear
    \/ Size
    \/ Capacity
    \/ FalsePositiveRate
    \/ EstimatedFalsePositiveRate
    \/ BitArraySize
    \/ HashCount
    \/ MemoryUsage
    \/ CountSetBits

Spec == Init /\ [][Next]_vars

\* the filter just constructed is kept as the second filter, and the program
\* goes on to construct the first
SecondFilter ==
    /\ phase = "live"
    /\ last.op = "none"
    /\ ~twin.made
    /\ twin' = [made |-> TRUE, this |-> this, args |-> args, ret |-> 0]
    /\ phase' = "start"
    /\ this' = NoObject
    /\ UNCHANGED <<args, inserted, calls, last, prev, threads>>

\* both filters were constructed from the same arguments
SameParameters == twin.made /\ twin.args = args

\* the same insert call on both filters
TwinInsert(data, sz) ==
    /\ SameParameters
    /\ InsertCall(data, sz)
    /\ twin' = [twin EXCEPT !.this = insert(@, data, sz)]
    /\ UNCHANGED threads

\* the same contains call on both filters
TwinContains(data, sz) ==
    /\ SameParameters
    /\ ContainsCall(data, sz)
    /\ twin' = [twin EXCEPT !.ret = contains(twin.this, data, sz)]
    /\ UNCHANGED threads

\* clear() on both filters
TwinClear ==
    /\ SameParameters
    /\ ClearCall
    /\ twin' = [twin EXCEPT !.this = clear(@)]
    /\ UNCHANGED threads

NextTwin ==
    \/ \E n \in Capacities, p \in Rates : ConstructDerived(n, p)
    \/ \E m \in ExplicitSizes, k \in ExplicitHashCounts, n \in ExplicitCapacities :
           ConstructExplicit(m, k, n)
    \/ SecondFilter
    \/ \E a \in RawArgs : TwinInsert(a.data, a.size)
    \/ \E a \in RawArgs : TwinContains(a.data, a.size)
    \/ TwinClear

\* a program that builds two filters and makes every call on both of them
SpecTwin == Init /\ [][NextTwin]_vars

\* Two threads call insert on the same filter without synchronization. The
\* calls race on bit_array_ and inserted_count_; the executions the build
\* produces are the interleavings of the calls' loads and stores.

\* hash_count arguments of the filters the threads share
RaceHashCounts == {1, 3}

AllIdle == \A t \in ThreadIds : threads.inside[t].pc = "idle"

\* thread t enters insert(data, size) with a non-empty buffer and fills hashes
RaceEnter(t, data) ==
    /\ phase = "live"
    /\ threads.inside[t].pc = "idle"
    /\ calls + Cardinality({u \in ThreadIds : threads.inside[u].pc # "idle"})
           < MaxInserts
    /\ threads' =
           [inside |-> [threads.inside EXCEPT ![t] =
                           [pc |-> "load", data |-> data,
                            hashes |-> AllHashes[<<this.hasher_, this.hash_count_>>,
                                                 data],
                            i |-> 1, loaded |-> 0]],
            overlapped |-> threads.overlapped
                               \/ \E u \in ThreadIds \ {t} :
                                      threads.inside[u].pc # "idle"]
    /\ prev' = this
    /\ UNCHANGED <<phase, this, args, inserted, calls, last, twin>>

\* set_bit(hashes[i]): the guard, and the load of bit_array_[byte_index]
RaceLoad(t) ==
    LET self == threads.inside[t]
        position == self.hashes[self.i]
    IN  /\ phase = "live"
        /\ self.pc = "load"
        /\ threads' =
               [threads EXCEPT !.inside[t] =
                   IF ~SizeLess(position, this.bit_array_size_)
                   THEN [self EXCEPT !.i = @ + 1,
                                     !.pc = IF self.i = Len(self.hashes)
                                            THEN "count_load" ELSE "load"]
                   ELSE [self EXCEPT !.loaded = this.bit_array_[(position \div 8) + 1],
                                     !.pc = "store"]]
        /\ UNCHANGED <<phase, this, args, inserted, calls, last, prev, twin>>

\* set_bit(hashes[i]): the store of the loaded byte or-ed with the mask
RaceStore(t) ==
    LET self == threads.inside[t]
        position == self.hashes[self.i]
        read == [this EXCEPT !.bit_array_[(position \div 8) + 1] = self.loaded]
    IN  /\ phase = "live"
        /\ self.pc = "store"
        /\ this' = set_bit(read, position)
        /\ threads' =
               [threads EXCEPT !.inside[t] =
                   [self EXCEPT !.i = @ + 1,
                                !.pc = IF self.i = Len(self.hashes)
                                       THEN "count_load" ELSE "load"]]
        /\ UNCHANGED <<phase, args, inserted, calls, last, prev, twin>>

\* inserted_count_++: the load
RaceCountLoad(t) ==
    LET self == threads.inside[t]
    IN  /\ phase = "live"
        /\ self.pc = "count_load"
        /\ threads' =
               [threads EXCEPT !.inside[t] =
                   [self EXCEPT !.loaded = this.inserted_count_,
                                !.pc = "count_store"]]
        /\ UNCHANGED <<phase, this, args, inserted, calls, last, prev, twin>>

\* inserted_count_++: the store, and the return of insert
RaceCountStore(t) ==
    LET self == threads.inside[t]
    IN  /\ phase = "live"
        /\ self.pc = "count_store"
        /\ this' = [this EXCEPT !.inserted_count_ = self.loaded + 1]
        /\ threads' = [threads EXCEPT !.inside[t] = Idle]
        /\ inserted' = inserted \cup {self.data}
        /\ calls' = calls + 1
        /\ last' = Call("insert", Ptr(self.data), Len(self.data), 0)
        /\ UNCHANGED <<phase, args, prev, twin>>

\* contains(data, size), called when no insert is in progress
RaceContains(data) ==
    /\ AllIdle
    /\ ContainsCall(Ptr(data), Len(data))
    /\ UNCHANGED <<twin, threads>>

\* clear(), called when no insert is in progress
RaceClear ==
    /\ AllIdle
    /\ ClearCall
    /\ threads' = NoThreads
    /\ UNCHANGED twin

NextRace ==
    \/ \E m \in ExplicitSizes, k \in RaceHashCounts : ConstructExplicit(m, k, 0)
    \/ \E t \in ThreadIds, data \in Buffers : RaceEnter(t, data)
    \/ \E t \in ThreadIds : RaceLoad(t)
    \/ \E t \in ThreadIds : RaceStore(t)
    \/ \E t \in ThreadIds : RaceCountLoad(t)
    \/ \E t \in ThreadIds : RaceCountStore(t)
    \/ \E data \in Buffers : RaceContains(data)
    \/ RaceClear

\* a program whose two threads insert into one filter
SpecRace == Init /\ [][NextRace]_vars

\* The hash engine of a constructed filter, called directly.

\* the k arguments of get_all_hashes and the hash_index arguments of hash
HashCallCounts == {0, 1, 3, 4}
HashCallIndexes == {0, 1, 3}

\* hasher_.get_all_hashes(data, size, k, hashes): ret is k and the k places of
\* the caller's array
GetAllHashes(data, k) ==
    /\ phase = "live"
    /\ last' = Call("get_all_hashes", Ptr(data), Len(data),
                    [k |-> k,
                     hashes |-> get_all_hashes(this.hasher_, data, Len(data), k)])
    /\ prev' = this
    /\ UNCHANGED <<phase, this, args, inserted, calls, twin, threads>>

\* hasher_.hash(data, size, hash_index)
HashAt(data, hash_index) ==
    /\ phase = "live"
    /\ last' = Call("hash", Ptr(data), Len(data),
                    [index |-> hash_index,
                     value |-> DoubleHasher_hash(this.hasher_, data, Len(data),
                                                 hash_index)])
    /\ prev' = this
    /\ UNCHANGED <<phase, this, args, inserted, calls, twin, threads>>

NextHash ==
    \/ \E n \in Capacities, p \in Rates : ConstructDerived(n, p)
    \/ \E m \in ExplicitSizes, k \in ExplicitHashCounts, n \in ExplicitCapacities :
           ConstructExplicit(m, k, n)
    \/ \E data \in Buffers, k \in HashCallCounts : GetAllHashes(data, k)
    \/ \E data \in Buffers, i \in HashCallIndexes : HashAt(data, i)

\* a program that builds a filter and calls its hash engine
SpecHash == Init /\ [][NextHash]_vars

\* explicit construction with a bit_array_size at the top of the size_t range
ConstructTop ==
    \E m \in TopSizes, k \in ExplicitHashCounts, n \in ExplicitCapacities :
        ConstructExplicit(m, k, n)

NextWide ==
    \/ Next
    \/ ConstructTop

\* the program with the whole range of size_t open to the explicit constructor
SpecWide == Init /\ [][NextWide]_vars

----------------------------------------------------------------------------
(* Properties                                                              *)

Live == phase = "live"

\* the bytes a (data, size) call presents
Presented(c) == SubSeq(c.data.bytes, 1, c.size)

\* the call passes the early return of insert / contains
NonEmpty(c) == ~c.data.null /\ c.size > 0

\* bit i of the array, read directly from the bytes
BitAt(self, i) == (self.bit_array_[(i \div 8) + 1] \div Pow2(i % 8)) % 2 = 1

\* the probe indices of buffer b in filter self, as a set
ProbeSet(self, b) ==
    LET hashes == AllHashes[<<self.hasher_, self.hash_count_>>, b]
    IN  {hashes[i] : i \in 1..Len(hashes)}

\* the sizing parameters of an object
Params(self) ==
    <<self.bit_array_size_, self.bit_array_bytes_, self.hash_count_,
      self.expected_elements_, self.false_positive_rate_, self.hasher_>>

C2_Emptiness ==
    (Live /\ last.op \in {"none", "clear"}) =>
        /\ count_set_bits(this) = 0
        /\ \A b \in Strings : ~contains(this, Ptr(b), Len(b))
        /\ \A a \in RawArgs : ~contains(this, a.data, a.size)

\* clear() was called on a filter that had bits set
C2_Witness ==
    /\ Live /\ last.op = "clear"
    /\ count_set_bits(prev) > 0
    /\ \E b \in Buffers : contains(prev, Ptr(b), Len(b))

\* C3: size() counts insert calls: an insert call with a non-empty, non-null
\* input raises size() by exactly 1, also when it sets no new bit, so size()
\* is the number of such calls since construction or the last clear().
C3_SizeCountsCalls ==
    Live =>
        /\ size(this) = calls
        /\ (last.op = "insert" /\ NonEmpty(last)) => size(this) = size(prev) + 1

\* an element was inserted again: no bit changed and size() went from 1 to 2
C3_Witness ==
    /\ Live /\ last.op = "insert" /\ NonEmpty(last)
    /\ this.bit_array_ = prev.bit_array_
    /\ Cardinality(inserted) = 1
    /\ size(prev) = 1 /\ size(this) = 2

\* C4: empty-input no-op: insert with a null pointer or with size 0 leaves
\* every field of the filter unchanged, and contains with such an input
\* returns false in every state, also when every bit is set.
C4_EmptyInputNoOp ==
    Live =>
        /\ (last.op = "insert" /\ ~NonEmpty(last)) => this = prev
        /\ (last.op = "contains" /\ ~NonEmpty(last)) => last.ret = FALSE
        /\ \A a \in RawArgs : ~NonEmpty(a) => ~contains(this, a.data, a.size)
        /\ ~contains(this, Ptr(<<>>), 0)

\* insert(nullptr, 1) was called on a filter whose bits are all set
C4_Witness ==
    /\ Live /\ last.op = "insert" /\ last.data.null /\ last.size = 1
    /\ size(this) > 0
    /\ count_set_bits(this) = this.bit_array_size_

\* C5: for a non-empty input, contains is true exactly when the bit at every
\* one of its probe indices is set, whatever the order the bits are looked at;
\* a contains call returned that value.
C5_ContainsIffAllProbesSet ==
    Live =>
        /\ \A b \in Buffers :
               contains(this, Ptr(b), Len(b))
                   <=> (\A i \in ProbeSet(this, b) : BitAt(this, i))
        /\ (last.op = "contains" /\ NonEmpty(last)) =>
               (last.ret <=> (\A i \in ProbeSet(this, Presented(last)) : BitAt(this, i)))

\* m = 10, k = 3: only "a" (probes 2, 9, 0) was inserted and the query for "c"
\* (probes 2, 5, 2) returned false: bit 2 is shared, bit 5 is unset
C5_Witness ==
    /\ Live /\ this.bit_array_size_ = 10 /\ this.hash_count_ = 3
    /\ inserted = {<<97>>} /\ calls = 1
    /\ ProbeSet(this, <<97>>) = {0, 2, 9}
    /\ last.op = "contains" /\ NonEmpty(last) /\ Presented(last) = <<99>>
    /\ ProbeSet(this, <<99>>) = {2, 5}
    /\ BitAt(this, 2) /\ ~BitAt(this, 5)
    /\ last.ret = FALSE

\* the const member functions
ReadOnlyOps ==
    {"contains", "size", "capacity", "false_positive_rate",
     "estimated_false_positive_rate", "bit_array_size", "hash_count",
     "memory_usage", "count_set_bits"}

\* C6: contains and the read-only accessors leave every field of the filter
\* (bits, inserted_count, parameters, the mutable hasher) as it was, so the
\* answer a query returned is the answer it returns again in the state it left.
C6_ReadOnlyCallsKeepState ==
    (Live /\ last.op \in ReadOnlyOps) =>
        /\ this = prev
        /\ last.op = "contains" => last.ret = contains(this, last.data, last.size)
        /\ last.op = "count_set_bits" => last.ret = count_set_bits(this)

\* count_set_bits() returned 3 on a filter of 10 bits holding one element
C6_Witness ==
    /\ Live /\ last.op = "count_set_bits" /\ last.ret = 3
    /\ this.bit_array_size_ = 10 /\ size(this) = 1
    /\ this = prev

\* C7: clear() zeroes every byte of the bit array and resets size() to 0, from
\* any state, and a second clear() changes nothing.
C7_ClearResets ==
    Live =>
        /\ last.op = "clear" =>
               /\ \A i \in DOMAIN this.bit_array_ : this.bit_array_[i] = 0
               /\ DOMAIN this.bit_array_ = DOMAIN prev.bit_array_
               /\ size(this) = 0
               /\ clear(this) = this
        /\ clear(clear(this)) = clear(this)

\* clear() was called on a filter holding two insertions
C7_Witness ==
    /\ Live /\ last.op = "clear"
    /\ size(prev) = 2 /\ count_set_bits(prev) > 0
    /\ size(this) = 0 /\ count_set_bits(this) = 0

\* C8: the sizing parameters m, k, capacity and target rate (and the byte
\* count and hasher derived from m) never change after construction; the bits
\* and inserted_count change only in insert and clear.
C8_ParametersImmutable ==
    Live =>
        /\ last.op # "none" => Params(this) = Params(prev)
        /\ capacity(this) = args.expected_elements
        /\ args.mode = "explicit" =>
               /\ bit_array_size(this) = args.bit_array_size
               /\ hash_count(this) = args.hash_count
        /\ args.mode = "derived" =>
               false_positive_rate(this) = args.false_positive_rate
        /\ (last.op # "none" /\ this # prev) => last.op \in {"insert", "clear"}

\* a second element was inserted into a filter built for one element
C8_Witness ==
    /\ Live /\ last.op = "insert" /\ NonEmpty(last)
    /\ args.mode = "derived" /\ capacity(this) = 1
    /\ size(this) = 2 /\ bit_array_size(this) = 64 /\ hash_count(this) = 32

\* p is strictly inside the open interval (0, 1)
StrictlyInside(p) == ~p.nan /\ p.v > 0 /\ p.v < Scale

\* C9: BloomFilter(n, p) throws invalid_argument exactly when n = 0 or p is not
\* strictly inside (0, 1); otherwise it yields a filter with size() = 0,
\* capacity() = n, false_positive_rate() = p, the optimal bit-array size for
\* (n, p) and the optimal hash count for that size and n.
C9_DerivedConstruction ==
    (args.mode = "derived" /\ phase # "start") =>
        LET n == args.expected_elements
            p == args.false_positive_rate
            invalid == n = 0 \/ ~StrictlyInside(p)
        IN  /\ phase = "invalid_argument" <=> invalid
            /\ ~invalid =>
                   /\ phase = "live"
                   /\ capacity(this) = n
                   /\ false_positive_rate(this) = p
                   /\ bit_array_size(this) \in calculate_optimal_bit_array_size(n, p)
                   /\ hash_count(this) =
                          calculate_optimal_hash_count(bit_array_size(this), n)
                   /\ last.op = "none" => size(this) = 0

\* C10: BloomFilter(m, k, n) throws invalid_argument exactly when m = 0 or k is
\* outside [1, 32]; otherwise it yields a filter with bit_array_size() = m,
\* hash_count() = k, capacity() = n, size() = 0 and false_positive_rate() equal
\* to the estimator at (m, k, n), which is 0.0 for n = 0.
C10_ExplicitConstruction ==
    (args.mode = "explicit" /\ phase # "start") =>
        LET m == args.bit_array_size
            k == args.hash_count
            n == args.expected_elements
            invalid == m = 0 \/ k < 1 \/ k > 32
        IN  /\ phase = "invalid_argument" <=> invalid
            /\ ~invalid =>
                   /\ phase = "live"
                   /\ bit_array_size(this) = m
                   /\ hash_count(this) = k
                   /\ capacity(this) = n
                   /\ false_positive_rate(this) = estimate_false_positive_rate(m, k, n)
                   /\ n = 0 => false_positive_rate(this) = Dbl(0)
                   /\ last.op = "none" => size(this) = 0

\* a filter was just built with m = 10, k = 3 and capacity 0
C10_Witness ==
    /\ Live /\ args.mode = "explicit" /\ last.op = "none"
    /\ args.bit_array_size = 10 /\ args.hash_count = 3
    /\ args.expected_elements = 0
    /\ false_positive_rate(this) = Dbl(0)
    /\ size(this) = 0

\* C11: validate once, infallible thereafter: the only error outcome is the
\* invalid_argument a constructor throws; on a filter that construction
\* accepted, every insert, contains, clear and accessor call completes, for
\* every input and in every reachable state.
C11_ValidateOnceInfallible ==
    /\ phase \in {"start", "live", "invalid_argument"}
    /\ last.op # "none" => phase = "live"

\* the positions of [0, m) whose bit is set
SetBits(self) == {i \in 0..(self.bit_array_size_ - 1) : BitAt(self, i)}

\* C12: monotonic fill: count_set_bits() does not decrease across an insert
\* call, a bit that is set is still set after an insert or a contains call,
\* and the only call after which a set bit is unset is clear().
C12_MonotonicFill ==
    (Live /\ last.op # "none") =>
        /\ last.op = "insert" => count_set_bits(this) >= count_set_bits(prev)
        /\ last.op \in {"insert", "contains"} => SetBits(prev) \subseteq SetBits(this)
        /\ ~(SetBits(prev) \subseteq SetBits(this)) => last.op = "clear"

\* m = 10, k = 3: "c" (probes 2, 5, 2) was inserted after "a" (probes 2, 9, 0):
\* the three bits of "a" are still set and bit 5 was added
C12_Witness ==
    /\ Live /\ last.op = "insert" /\ NonEmpty(last) /\ Presented(last) = <<99>>
    /\ this.bit_array_size_ = 10 /\ this.hash_count_ = 3
    /\ SetBits(prev) = {0, 2, 9}
    /\ SetBits(this) = {0, 2, 5, 9}
    /\ count_set_bits(prev) = 3 /\ count_set_bits(this) = 4

C14_AtLeast64EitherMode ==
    Live => bit_array_size(this) >= MIN_BIT_ARRAY_SIZE

\* C14, amended: a filter built by the derived constructor has
\* bit_array_size() >= 64; a filter built by the explicit constructor has the
\* bit_array_size() it was given, which is any size of at least 1; both in
\* every reachable state.
C14_MinBitArraySize ==
    Live =>
        /\ args.mode = "derived" => bit_array_size(this) >= MIN_BIT_ARRAY_SIZE
        /\ args.mode = "explicit" =>
               /\ bit_array_size(this) = args.bit_array_size
               /\ bit_array_size(this) >= 1

\* BloomFilter(1, 0.5): the formula gives 2 bits and the filter has 64, still
\* so after an insert
C14_Witness ==
    /\ Live /\ args.mode = "derived"
    /\ args.expected_elements = 1 /\ args.false_positive_rate = Dbl(500000)
    /\ CeilDiv(1 * 693147, LN_2_SQUARED) = 2
    /\ bit_array_size(this) = 64
    /\ last.op = "insert" /\ size(this) = 1

\* C15: every successfully constructed filter, in either construction mode,
\* has 1 <= hash_count() <= 32, in every reachable state.
C15_HashCountRange ==
    Live =>
        /\ hash_count(this) >= MIN_HASH_FUNCTIONS
        /\ hash_count(this) <= MAX_HASH_FUNCTIONS

\* BloomFilter(1, 0.5): m = 64 and round(64 * ln 2) = 44, clamped to 32; the
\* filter still has 32 hash functions after an insert and a clear
C15_Witness ==
    /\ Live /\ args.mode = "derived" /\ args.expected_elements = 1
    /\ bit_array_size(this) = 64
    /\ (2 * 64 * LN_2 + Scale) \div (2 * Scale) = 44
    /\ hash_count(this) = 32
    /\ last.op = "clear" /\ size(prev) = 1

C17_LiveEstimateMonotone ==
    Live =>
        LET now == estimate_false_positive_rate(bit_array_size(this),
                                                hash_count(this), size(this))
        IN  /\ estimated_false_positive_rate(this) = now
            /\ last.op = "estimated_false_positive_rate" => last.ret = now
            /\ last.op = "insert" =>
                   DGeq(estimated_false_positive_rate(this),
                        estimated_false_positive_rate(prev))
            /\ \A c \in 0..size(this) :
                   DLeq(estimate_false_positive_rate(bit_array_size(this),
                                                     hash_count(this), c),
                        now)

\* BloomFilter(1, 1, n): the second insert raised the estimate from
\* 1 - exp(-1) = 0.632 to 1 - exp(-2) = 0.865
C17_Witness ==
    /\ Live /\ bit_array_size(this) = 1 /\ hash_count(this) = 1
    /\ last.op = "insert" /\ size(prev) = 1 /\ size(this) = 2
    /\ estimated_false_positive_rate(prev).v \in 632119..632122
    /\ estimated_false_positive_rate(this).v \in 864663..864666

\* the objects that agree with self on the positions of [0, m) and hold any
\* bits at all at the positions >= m of the final, partial byte
PaddingVariants(self) ==
    LET extra_bits == self.bit_array_size_ % 8
    IN  IF extra_bits = 0 THEN {self}
        ELSE {[self EXCEPT !.bit_array_[Len(self.bit_array_)] =
                               (@ % Pow2(extra_bits)) + Pow2(extra_bits) * high] :
                  high \in 0..(Pow2(8 - extra_bits) - 1)}

\* C18: count_set_bits() is exactly the number of positions i in [0, m) whose
\* bit is set, for every m, a multiple of 8 or not; whatever the final partial
\* byte holds at positions >= m is not counted.
C18_CountSetBitsExact ==
    Live =>
        /\ count_set_bits(this) = Cardinality(SetBits(this))
        /\ last.op = "count_set_bits" => last.ret = Cardinality(SetBits(this))
        /\ \A padded \in PaddingVariants(this) :
               count_set_bits(padded) = Cardinality(SetBits(this))

\* m = 10: count_set_bits() returned 4 with "a" and "c" inserted; bit 9 is in
\* the partial second byte, which has six positions past the end
C18_Witness ==
    /\ Live /\ this.bit_array_size_ = 10 /\ Len(this.bit_array_) = 2
    /\ SetBits(this) = {0, 2, 5, 9}
    /\ Cardinality(PaddingVariants(this)) = 64
    /\ last.op = "count_set_bits" /\ last.ret = 4

\* C19: the filter does no locking and set_bit is a load followed by a store.
\* When the insert calls are serialized (no call entered while another was in
\* progress) every inserted element is reported present; the lost update, in
\* which contains of an inserted element returns false, is reachable only when
\* two insert calls overlapped.
C19_SerializedInsertsLoseNothing ==
    (Live /\ ~threads.overlapped) =>
        /\ \A b \in inserted : contains(this, Ptr(b), Len(b))
        /\ (last.op = "contains" /\ Presented(last) \in inserted)
               => last.ret = TRUE

\* two insert calls overlapped, both returned, and contains of one of the
\* inserted elements returned false: a byte one thread had stored was
\* overwritten by the other thread's store
C19_Witness ==
    /\ Live /\ threads.overlapped /\ AllIdle
    /\ calls = 2 /\ Cardinality(inserted) = 2
    /\ last.op = "contains" /\ Presented(last) \in inserted
    /\ last.ret = FALSE
    /\ \E i \in ProbeSet(this, Presented(last)) : ~BitAt(this, i)

\* the positions set by the insert calls made since construction or clear()
ProbedByInserted(self) == UNION {ProbeSet(self, x) : x \in inserted}

\* C20: one-sided error: for a non-empty y that was not inserted, contains(y)
\* is true exactly when each of y's probe indices was set by some inserted
\* element, so a true answer does not tell that y was inserted; a state with
\* such an answer is reachable by inserting only elements other than y.
C20_FalsePositiveWhenProbesCovered ==
    Live =>
        /\ \A y \in Buffers \ inserted :
               contains(this, Ptr(y), Len(y))
                   <=> ProbeSet(this, y) \subseteq ProbedByInserted(this)
        /\ (last.op = "contains" /\ NonEmpty(last) /\ Presented(last) \notin inserted)
               => (last.ret <=> ProbeSet(this, Presented(last))
                                    \subseteq ProbedByInserted(this))

\* m = 10, k = 3: only "a" and "c" were inserted (probes 0, 2, 9 and 2, 5) and
\* contains("f") returned true: the probes of "f" are among those positions
C20_Witness ==
    /\ Live /\ this.bit_array_size_ = 10 /\ this.hash_count_ = 3
    /\ inserted = {<<97>>, <<99>>}
    /\ last.op = "contains" /\ NonEmpty(last) /\ Presented(last) = <<102>>
    /\ <<102>> \notin inserted
    /\ ProbeSet(this, <<102>>) \subseteq {0, 2, 5, 9}
    /\ last.ret = TRUE

\* ceil(m / 8) as a mathematical integer, for a size_t m (a value past the
\* machine's containers is HugeSize)
CeilBytes(m) == IF m < 0 \/ m >= HugeSize THEN HugeSize ELSE (m + 7) \div 8

\* C21: memory_usage() is ceil(m / 8), the number of backing bytes, plus a
\* constant that is the same for every filter; a filter with a smaller or
\* equal m does not report more; insert and clear do not change it.
C21_MemoryUsageMonotone ==
    Live =>
        /\ memory_usage(this) = CeilBytes(bit_array_size(this)) + SizeofThis
        /\ memory_usage(this) = Len(this.bit_array_) + SizeofThis
        /\ last.op = "memory_usage" => last.ret = memory_usage(this)
        /\ \A m1 \in ExplicitSizes \ {0} :
               ~SizeLess(bit_array_size(this), m1)
                   \* the memory_usage() of BloomFilter(m1, 1, 0)
                   => memory_usage(Object(m1, ByteCount(m1), 1, 0, Dbl(0), 0,
                                          <<>>, DoubleHasher(m1)))
                          <= memory_usage(this)
        /\ last.op \in {"insert", "clear"} => memory_usage(this) = memory_usage(prev)

\* C22: for a non-empty input and any k, get_all_hashes writes exactly k
\* indices, each in [0, m); an engine of the same size and seeds returns the
\* same indices; the call leaves the engine (and the filter) as it was; and
\* hash(data, size, i) is the i-th of the indices get_all_hashes writes.
C22_HashEngineIndices ==
    Live =>
        /\ last.op = "get_all_hashes" =>
               /\ Len(last.ret.hashes) = last.ret.k
               /\ \A i \in 1..last.ret.k :
                      /\ last.ret.hashes[i] >= 0
                      /\ last.ret.hashes[i] < bit_array_size(this)
               /\ last.ret.hashes =
                      get_all_hashes(DoubleHasher(bit_array_size(this)),
                                     Presented(last), last.size, last.ret.k)
               /\ this = prev
        /\ last.op = "hash" =>
               /\ last.ret.value =
                      get_all_hashes(this.hasher_, Presented(last), last.size,
                                     last.ret.index + 1)[last.ret.index + 1]
               /\ last.ret.value >= 0
               /\ last.ret.value < bit_array_size(this)
               /\ this = prev

\* m = 10: get_all_hashes("a", 3) wrote the three indices 2, 9, 0
C22_Witness ==
    /\ Live /\ bit_array_size(this) = 10
    /\ last.op = "get_all_hashes" /\ Presented(last) = <<97>>
    /\ last.ret.k = 3
    /\ last.ret.hashes = <<2, 9, 0>>

\* the base hashes of the last call's input, and h2 as the engine uses it
BaseH1(self) == MurmurHash3_call(self.hasher_.hash1_, Presented(last), last.size)
BaseH2(self) == MurmurHash3_call(self.hasher_.hash2_, Presented(last), last.size)
OddH2(self) ==
    IF IsEven64(BaseH2(self)) THEN Add64(BaseH2(self), ToU64(1)) ELSE BaseH2(self)

\* (h1 + i * h2) mod m with h1 + i * h2 the mathematical integer
MathProbe(h1, h2, i, m) == (Mod64(h1, m) + i * Mod64(h2, m)) % m

\* m divides 2^64
PowerOfTwo(m) == \E e \in 0..30 : m = Pow2(e)

FullCycle(self) ==
    LET hashes == get_all_hashes(self.hasher_, Presented(last), last.size,
                                 self.bit_array_size_)
    IN  {hashes[i] : i \in 1..self.bit_array_size_}

\* the first min(k, m) places of hashes hold pairwise distinct indices
FirstDistinct(hashes, k, m) ==
    \A i, j \in 1..Min(k, m) : i # j => hashes[i] # hashes[j]

\* C24 as stated: with h2 odd, the probe sequence for i = 0 .. m - 1 visits
\* every index of [0, m), for every m that construction accepts, so the first
\* min(k, m) probe indices of an element are pairwise distinct.
C24_FullCoverageEveryM ==
    (Live /\ last.op = "get_all_hashes") =>
        /\ FullCycle(this) = 0..(bit_array_size(this) - 1)
        /\ FirstDistinct(last.ret.hashes, last.ret.k, bit_array_size(this))

\* C24, amended: when m is a power of two, the probe sequence for
\* i = 0 .. m - 1 visits every index of [0, m) and the first min(k, m) probe
\* indices of an element are pairwise distinct.
C24_FullCoveragePowerOfTwo ==
    (Live /\ last.op = "get_all_hashes" /\ PowerOfTwo(bit_array_size(this))) =>
        /\ FullCycle(this) = 0..(bit_array_size(this) - 1)
        /\ FirstDistinct(last.ret.hashes, last.ret.k, bit_array_size(this))

\* m = 64: the four indices get_all_hashes("c", 4) wrote are distinct and the
\* 64 indices of "c" are all of [0, 64)
C24_Witness ==
    /\ Live /\ bit_array_size(this) = 64
    /\ last.op = "get_all_hashes" /\ Presented(last) = <<99>>
    /\ last.ret.k = 4
    /\ Cardinality({last.ret.hashes[i] : i \in 1..4}) = 4
    /\ Cardinality(FullCycle(this)) = 64

\* C25: a filter that explicit construction accepted with m > 0 owns exactly
\* ceil(m / 8) backing bytes, all zero when it was just built, and no set_bit
\* of an insert and no get_bit of a contains addresses a byte outside them.
C25_StoreHoldsEveryIndex ==
    (Live /\ args.mode = "explicit") =>
        /\ Len(this.bit_array_) = CeilBytes(bit_array_size(this))
        /\ this.bit_array_bytes_ = Len(this.bit_array_)
        /\ last.op = "none" =>
               \A b \in 1..Len(this.bit_array_) : this.bit_array_[b] = 0
        /\ \A data \in Buffers :
               /\ ~InsertOutOfBounds(this, Ptr(data), Len(data))
               /\ ~ContainsOutOfBounds(this, Ptr(data), Len(data))

\* a capacity for which the size formula's value is above MIN_BIT_ARRAY_SIZE
\* at every rate
LargeCapacity == 100

\* C26: calculate_optimal_bit_array_size(n, p) is at least MIN_BIT_ARRAY_SIZE
\* for all inputs, is exactly MIN_BIT_ARRAY_SIZE when n = 0 whatever p is, and
\* for a p that is not strictly inside (0, 1) is the value for p = 0.01.
C26_BitArraySizeFloorAndDefault ==
    (args.mode = "derived" /\ phase \in {"live", "bad_alloc"}) =>
        \A n \in {0, args.expected_elements, LargeCapacity}, p \in Rates :
            LET sizes == calculate_optimal_bit_array_size(n, p)
            IN  /\ \A m \in sizes : m >= MIN_BIT_ARRAY_SIZE
                /\ n = 0 => sizes = {MIN_BIT_ARRAY_SIZE}
                /\ ~StrictlyInside(p) =>
                       sizes = calculate_optimal_bit_array_size(
                                   n, DEFAULT_FALSE_POSITIVE_RATE)

\* bit-array sizes handed to calculate_optimal_hash_count
CalculatorSizes == {0, 1, 10, MIN_BIT_ARRAY_SIZE, 87, 959, HugeSize, SIZE_MAX}

\* C27: calculate_optimal_hash_count(m, n) is in [1, 32] for all inputs, it
\* is the rounded (m / n) * ln 2 clamped to that range, and it is 1 when
\* n = 0; so a filter built by the derived constructor has 1 <= k <= 32.
C27_HashCountClamped ==
    /\ \A m \in CalculatorSizes, n \in {0, args.expected_elements, LargeCapacity} :
           LET k == calculate_optimal_hash_count(m, n)
           IN  /\ k >= 1 /\ k <= 32
               /\ n = 0 => k = 1
               /\ (n > 0 /\ m >= 0 /\ m <= 959) =>
                      LET twice == 2 * m * LN_2          \* 2 * (m / n) * ln 2,
                          unit == n * Scale              \* in units of 1 / n
                          rounded == (twice + unit) \div (2 * unit)
                      IN  k = IF rounded < 1 THEN 1
                              ELSE IF rounded > 32 THEN 32 ELSE rounded
    /\ (Live /\ args.mode = "derived") =>
           /\ hash_count(this) >= 1 /\ hash_count(this) <= 32
           /\ hash_count(this) =
                  calculate_optimal_hash_count(bit_array_size(this), capacity(this))

\* BloomFilter(3, 0.000001): m = 87 and round(29 * ln 2) = 20, inside the
\* range; for the same capacity m = 959 is clamped down to 32, and m = 64 for
\* 100 elements (round(0.44) = 0) is raised to 1
C27_Witness ==
    /\ Live /\ args.mode = "derived" /\ args.expected_elements = 3
    /\ bit_array_size(this) = 87 /\ hash_count(this) = 20
    /\ calculate_optimal_hash_count(959, 3) = 32
    /\ calculate_optimal_hash_count(64, LargeCapacity) = 1
    /\ calculate_optimal_hash_count(87, 0) = 1

\* C28: estimate_false_positive_rate(m, k, n_inserted) is 1.0 whenever m = 0
\* or k = 0, also when n_inserted = 0, and is 0.0 when m > 0, k > 0 and
\* n_inserted = 0; a filter that was just built or just cleared reports an
\* estimated_false_positive_rate() of 0.0.
C28_EstimateDegenerateCases ==
    /\ \A m \in CalculatorSizes, k \in ExplicitHashCounts,
          n \in {0, this.inserted_count_, LargeCapacity} :
           LET estimate == estimate_false_positive_rate(m, k, n)
           IN  /\ (m = 0 \/ k = 0) => estimate = Dbl(Scale)
               /\ (m # 0 /\ k # 0 /\ n = 0) => estimate = Dbl(0)
    /\ (Live /\ last.op \in {"none", "clear"}) =>
           estimated_false_positive_rate(this) = Dbl(0)
    /\ (Live /\ last.op = "estimated_false_positive_rate" /\ size(this) = 0) =>
           last.ret = Dbl(0)

\* a filter that held two elements (estimate above 0.0) was cleared and
\* reports 0.0; with m = 0 or k = 0 the estimator gives 1.0 for no element
C28_Witness ==
    /\ Live /\ last.op = "clear" /\ size(prev) = 2
    /\ estimated_false_positive_rate(prev).v > 0
    /\ estimated_false_positive_rate(this) = Dbl(0)
    /\ estimate_false_positive_rate(0, 3, 0) = Dbl(Scale)
    /\ estimate_false_positive_rate(10, 0, 0) = Dbl(Scale)

\* C29: abstraction invariant: the set bit positions are the union of the
\* probe sets of the non-empty elements inserted since construction or the
\* last clear(); inserting two elements in either order gives the same bits
\* and size; re-inserting an element changes no bit; and contains(x) is true
\* exactly when the probe set of x is included in that union.
C29_BitsAreUnionOfProbeSets ==
    Live =>
        /\ SetBits(this) = ProbedByInserted(this)
        /\ (last.op = "insert" /\ NonEmpty(last)) =>
               \A y \in Buffers :
                   LET x_then_y == insert(this, Ptr(y), Len(y))
                       y_then_x == insert(insert(prev, Ptr(y), Len(y)),
                                          last.data, last.size)
                   IN  /\ x_then_y.bit_array_ = y_then_x.bit_array_
                       /\ size(x_then_y) = size(y_then_x)
        /\ \A x \in inserted :
               LET again == insert(this, Ptr(x), Len(x))
               IN  /\ again.bit_array_ = this.bit_array_
                   /\ size(again) = size(this) + 1
        /\ \A x \in Buffers :
               contains(this, Ptr(x), Len(x))
                   <=> ProbeSet(this, x) \subseteq ProbedByInserted(this)

\* m = 10, k = 3: "a" (probes 2, 9, 0) was inserted twice: the second insert
\* changed no bit, and the set positions are the probes of "a"
C29_Witness ==
    /\ Live /\ this.bit_array_size_ = 10 /\ this.hash_count_ = 3
    /\ last.op = "insert" /\ NonEmpty(last) /\ Presented(last) = <<97>>
    /\ inserted = {<<97>>} /\ size(this) = 2
    /\ this.bit_array_ = prev.bit_array_
    /\ SetBits(this) = {0, 2, 9}

\* C30: on a constructed filter count_set_bits() is at most
\* min(m, k * size()) and is 0 exactly when size() is 0: every counted insert
\* sets at least one bit of [0, m), and no bit at a position >= m of the
\* final partial byte is ever set.
C30_SetBitsBoundedBySize ==
    Live =>
        /\ count_set_bits(this)
               <= Min(bit_array_size(this), hash_count(this) * size(this))
        /\ count_set_bits(this) = 0 <=> size(this) = 0
        /\ last.op = "count_set_bits" =>
               /\ last.ret <= Min(bit_array_size(this), hash_count(this) * size(this))
               /\ last.ret = 0 <=> size(this) = 0
        /\ (last.op = "insert" /\ NonEmpty(last)) =>
               /\ size(this) = size(prev) + 1
               /\ count_set_bits(this) >= 1
               /\ count_set_bits(this) <= count_set_bits(prev) + hash_count(this)
        /\ bit_array_size(this) % 8 # 0 =>
               this.bit_array_[Len(this.bit_array_)]
                   < Pow2(bit_array_size(this) % 8)

\* m = 10, k = 3: after "c" (probes 2, 5, 2) and "a" (probes 2, 9, 0) four
\* bits are set, fewer than k * size() = 6; bit 9 lies in the partial byte
C30_Witness ==
    /\ Live /\ this.bit_array_size_ = 10 /\ this.hash_count_ = 3
    /\ inserted = {<<97>>, <<99>>} /\ size(this) = 2
    /\ last.op = "count_set_bits" /\ last.ret = 4
    /\ this.bit_array_ = <<37, 2>>

====
